---- MODULE Spec2Model ----
(***************************************************************************)
(* The dependency-injection container of src/dependencyInjection/index.ts: *)
(* the Container (a Map from class identity to instance), the class        *)
(* decorator Injectable, the property decorator Inject, and the demo       *)
(* program built on them (ConfigService .. Main).                          *)
(*                                                                         *)
(* Three specifications share one state:                                   *)
(*   Spec      the container API driven by an arbitrary caller             *)
(*             (register, resolve, Injectable, Inject, property reads);    *)
(*   SpecDecl  runs in which client code only declares decorated classes   *)
(*             and reads (resolve, property reads);                        *)
(*   SpecMain  the evaluation of index.ts itself, lines 40-142.            *)
(***************************************************************************)
EXTENDS Naturals, Sequences, FiniteSets, TLC

VARIABLES
    services,      \* Container.services: the Map, as its insertion-ordered entries
    accessors,     \* the accessors defineProperty put on prototypes: <<owner, key>> -> closure
    heap,          \* objects constructed so far: object id -> class
    loggerService, \* UserService instances' own field loggerService: object id -> value
    ret,           \* outcome of the operation that ran last (what its caller observes)
    lastReg,       \* history: token -> the instance of the latest register(token, _) call
    prevReg,       \* history: the token and instance of the latest register call that replaced another instance
    injectedAt,    \* history: <<owner, key>> -> instance registered for the token when Inject ran
    hookDone,      \* history: classes whose Injectable application returned normally
    config,        \* what ConfigService.getEnvConfig reports
    order,         \* history: the classes whose declarations were evaluated, in order
    pc,            \* where the evaluation of the module stands
    main,          \* the module's const main
    ctorView,      \* history: what the constructor run by the latest class declaration found
    output         \* lines written by console.log

vars == <<services, accessors, heap, loggerService, ret, lastReg, prevReg,
          injectedAt, hookDone, config, order, pc, main, ctorView, output>>

(***************************************************************************)
(* Bounds                                                                  *)
(***************************************************************************)
MaxObjects == 2

(***************************************************************************)
(* Values.  An object is known by its identity; 0 (the number) stands for  *)
(* the falsy values a caller can hand to register; undefined is what       *)
(* Map.get and a read of a missing property give.                          *)
(***************************************************************************)
Obj(n) == [tag |-> "object", id |-> n]

Zero == [tag |-> "number", id |-> 0]

Undefined == [tag |-> "undefined", id |-> 0]

\* JavaScript's ToBoolean on the values above, as `!service` applies it.
Truthy(v) == v.tag = "object"

\* The class identities the caller of the container API works with.
Tokens == {"A", "B"}

\* The property names the caller decorates.
PropertyKeys == {"dep"}

\* The class whose properties the caller decorates.
Owners == {"A"}

(***************************************************************************)
(* Map (the ECMAScript collection behind Container.services)               *)
(***************************************************************************)
MapKeys(m) == {m[i].token : i \in 1..Len(m)}

MapHas(m, token) == token \in MapKeys(m)

MapIndex(m, token) == CHOOSE i \in 1..Len(m) : m[i].token = token

\* Map.prototype.get: the value of the entry with that key, else undefined.
MapGet(m, token) ==
    IF MapHas(m, token) THEN m[MapIndex(m, token)].instance ELSE Undefined

\* Map.prototype.set: replaces the value of an existing entry in place,
\* else appends a new entry.
MapSet(m, token, instance) ==
    IF MapHas(m, token)
    THEN [m EXCEPT ![MapIndex(m, token)] = [token |-> token, instance |-> instance]]
    ELSE Append(m, [token |-> token, instance |-> instance])

(***************************************************************************)
(* Container                                                               *)
(***************************************************************************)
\* A register that keeps the first instance of a token.
ContainerRegisterKeepFirst(svc, token, instance) ==
    IF MapHas(svc, token) THEN svc ELSE MapSet(svc, token, instance)

\* A register that starts the Map afresh on every call.
ContainerRegisterFresh(svc, token, instance) ==
    <<[token |-> token, instance |-> instance]>>

\* Container.register: this.services.set(token, instance)
ContainerRegister(svc, token, instance) == MapSet(svc, token, instance)

\* A resolve that hands back whatever Map.get gave.
ContainerResolveNoThrow(svc, token) ==
    [kind |-> "return", val |-> MapGet(svc, token), token |-> token]

\* Container.resolve: get, throw when the value is falsy, else return it.
ContainerResolve(svc, token) ==
    LET service == MapGet(svc, token)
    IN  IF ~Truthy(service)
        THEN [kind |-> "LookupError", val |-> Undefined, token |-> token]
        ELSE [kind |-> "return", val |-> service, token |-> token]

\* A resolve that drops the entry it could not hand out.
ContainerResolveEvicting(svc, token) ==
    IF Truthy(MapGet(svc, token)) THEN svc
    ELSE SelectSeq(svc, LAMBDA e : e.token # token)

\* The Map after Container.resolve(token): get only reads, and neither the
\* throw nor the return writes.
ContainerResolveEffect(svc, token) == svc

(***************************************************************************)
(* Functions as finite maps                                                *)
(***************************************************************************)
Put(f, k, v) == [x \in DOMAIN f \cup {k} |-> IF x = k THEN v ELSE f[x]]

Empty == [x \in {} |-> Undefined]

(***************************************************************************)
(* Decorators                                                              *)
(***************************************************************************)
\* An Injectable that registers whatever came out of the constructor call,
\* thrown or not.
InjectableRegisterAnyway(svc, BaseClassEntity, constructed) ==
    [kind     |-> constructed.kind,
     services |-> ContainerRegister(svc, BaseClassEntity, constructed.val),
     val      |-> Undefined]

\* An Injectable that keeps an instance registered earlier for the class.
InjectableKeepFirst(svc, BaseClassEntity, constructed) ==
    [kind     |-> constructed.kind,
     services |-> IF constructed.kind = "return"
                  THEN ContainerRegisterKeepFirst(svc, BaseClassEntity, constructed.val)
                  ELSE svc,
     val      |-> Undefined]

\* Injectable(BaseClassEntity): container.register(BaseClassEntity, new BaseClassEntity).
\* `constructed` is the outcome of `new BaseClassEntity`, evaluated as the
\* argument before register is called; a throw leaves before the call.  The
\* function has no return statement: the decorator yields undefined.
InjectableApply(svc, BaseClassEntity, constructed) ==
    IF constructed.kind = "return"
    THEN [kind     |-> "return",
          services |-> ContainerRegister(svc, BaseClassEntity, constructed.val),
          val      |-> Undefined]
    ELSE [kind |-> constructed.kind, services |-> svc, val |-> Undefined]

\* An Inject that defines the accessor without looking at the outcome of the
\* lookup.
InjectDeferred(svc, acc, token, slot) ==
    [kind      |-> "return",
     accessors |-> Put(acc, slot, [serviceInstance |-> MapGet(svc, token),
                                   token |-> token]),
     resolves  |-> 0]

\* Inject(token)(target, propertyKey): resolve first (a throw leaves before
\* defineProperty), then define the accessor whose getter closes over the
\* resolved serviceInstance.
InjectApply(svc, acc, token, slot) ==
    LET r == ContainerResolve(svc, token)
    IN  IF r.kind = "LookupError"
        THEN [kind |-> "LookupError", accessors |-> acc, resolves |-> 1]
        ELSE [kind      |-> "return",
              accessors |-> Put(acc, slot, [serviceInstance |-> r.val,
                                            token |-> token]),
              resolves  |-> 1]

\* A getter that looks the token up again on every read.
AccessorGetLazy(acc, slot, svc) ==
    IF slot \in DOMAIN acc
    THEN [val |-> ContainerResolve(svc, acc[slot].token).val, resolves |-> 1]
    ELSE [val |-> Undefined, resolves |-> 0]

\* A read of target[propertyKey]: the getter `() => serviceInstance` when the
\* accessor is defined, undefined otherwise.
AccessorGet(acc, slot, svc) ==
    IF slot \in DOMAIN acc
    THEN [val |-> acc[slot].serviceInstance, resolves |-> 0]
    ELSE [val |-> Undefined, resolves |-> 0]

(***************************************************************************)
(* Construction of a class the caller supplies: the constructor either     *)
(* throws or yields a fresh object of the class.                           *)
(***************************************************************************)
Fresh(h) == Cardinality(DOMAIN h) + 1

NewObject(h, cls, throws) ==
    IF throws
    THEN [kind |-> "ConstructionError", val |-> Undefined, heap |-> h]
    ELSE [kind |-> "return", val |-> Obj(Fresh(h)), heap |-> Put(h, Fresh(h), cls)]

(***************************************************************************)
(* History of register calls (by whoever made them)                        *)
(***************************************************************************)
NoteRegister(token, instance) ==
    /\ lastReg' = Put(lastReg, token, instance)
    /\ prevReg' = IF token \in DOMAIN lastReg /\ lastReg[token] # instance
                  THEN [token |-> token, instance |-> lastReg[token]]
                  ELSE prevReg

\* The instance of the latest register call for the token, if any.
LatestRegistered(token) ==
    IF token \in DOMAIN lastReg THEN lastReg[token] ELSE Undefined

Outcome(op, token, key, kind, val, resolves) ==
    [op |-> op, token |-> token, key |-> key, kind |-> kind, val |-> val,
     resolves |-> resolves, deps |-> <<>>]

program == <<config, order, pc, main, output, loggerService, ctorView>>

\* No constructor has run under a class declaration yet.
NoView == [cls |-> "none", defined |-> {}, saw |-> Undefined]

(***************************************************************************)
(* The container API, driven by an arbitrary caller                        *)
(***************************************************************************)
Init ==
    /\ services = <<>>
    /\ accessors = Empty
    /\ heap = Empty
    /\ loggerService = Empty
    /\ ret = Outcome("none", "none", "none", "return", Undefined, 0)
    /\ lastReg = Empty
    /\ prevReg = [token |-> "none", instance |-> Undefined]
    /\ injectedAt = Empty
    /\ hookDone = {}
    /\ config = "console"
    /\ order = <<>>
    /\ pc = "idle"
    /\ main = Undefined
    /\ ctorView = NoView
    /\ output = <<>>

\* container.register(token, instance), the instance being 0, an object made
\* earlier, or one the caller makes for the call.
Register(token, instance) ==
    /\ instance.id <= Fresh(heap)
    /\ heap' = IF instance.id = Fresh(heap) THEN Put(heap, instance.id, token) ELSE heap
    /\ services' = ContainerRegister(services, token, instance)
    /\ NoteRegister(token, instance)
    /\ ret' = Outcome("register", token, "none", "return", Undefined, 0)
    /\ UNCHANGED <<accessors, injectedAt, hookDone, program>>

\* container.resolve(token)
Resolve(token) ==
    /\ LET r == ContainerResolve(services, token)
       IN  ret' = Outcome("resolve", r.token, "none", r.kind, r.val, 1)
    /\ services' = ContainerResolveEffect(services, token)
    /\ UNCHANGED <<accessors, heap, lastReg, prevReg, injectedAt,
                   hookDone, program>>

\* Injectable(cls), cls a class whose constructor throws or not.
Injectable(cls, throws) ==
    /\ throws \/ Fresh(heap) <= MaxObjects
    /\ LET constructed == NewObject(heap, cls, throws)
           r == InjectableApply(services, cls, constructed)
       IN  /\ heap' = constructed.heap
           /\ services' = r.services
           /\ ret' = Outcome("Injectable", cls, "none", r.kind, r.val, 0)
           /\ hookDone' = IF r.kind = "return" THEN hookDone \cup {cls} ELSE hookDone
           /\ IF constructed.kind = "return"
              THEN NoteRegister(cls, constructed.val)
              ELSE UNCHANGED <<lastReg, prevReg>>
    /\ UNCHANGED <<accessors, injectedAt, program>>

\* Inject(token)(owner.prototype, key)
Inject(token, owner, key) ==
    /\ LET r == InjectApply(services, accessors, token, <<owner, key>>)
       IN  /\ accessors' = r.accessors
           /\ ret' = Outcome("Inject", token, key, r.kind, Undefined, r.resolves)
           /\ injectedAt' = IF r.kind = "return"
                            THEN Put(injectedAt, <<owner, key>>, LatestRegistered(token))
                            ELSE injectedAt
    /\ services' = ContainerResolveEffect(services, token)
    /\ UNCHANGED <<heap, lastReg, prevReg, hookDone, program>>

\* a read of the property `key` of an instance of `owner`
ReadProperty(owner, key) ==
    /\ LET r == AccessorGet(accessors, <<owner, key>>, services)
       IN  ret' = Outcome("read", owner, key, "return", r.val, r.resolves)
    /\ UNCHANGED <<services, accessors, heap, lastReg, prevReg, injectedAt,
                   hookDone, program>>

RegisterInputs == {Zero} \cup {Obj(n) : n \in 1..MaxObjects}

Next ==
    \/ \E token \in Tokens, instance \in RegisterInputs : Register(token, instance)
    \/ \E token \in Tokens : Resolve(token)
    \/ \E cls \in Tokens, throws \in BOOLEAN : Injectable(cls, throws)
    \/ \E token \in Tokens, owner \in Owners, key \in PropertyKeys :
          Inject(token, owner, key)
    \/ \E owner \in Owners, key \in PropertyKeys : ReadProperty(owner, key)

Spec == Init /\ [][Next]_vars

(***************************************************************************)
(* Class declarations.  Evaluating a decorated class applies its property  *)
(* decorators in the order the properties are written, then its class      *)
(* decorator; a throw ends the evaluation of the declaration.              *)
(***************************************************************************)
\* The classes index.ts declares, in the order it declares them.
DeclaredOrder ==
    <<"ConfigService", "ConsoleLoggerService", "FileLoggerService",
      "CloudLoggerService", "LoggerFactory", "UserService", "Main">>

ProgramClasses == {DeclaredOrder[i] : i \in 1..Len(DeclaredOrder)}

\* The @Inject(token) properties of each class of index.ts, in source order.
InjectsOf(cls) ==
    CASE cls = "LoggerFactory" ->
            <<[key |-> "configService", token |-> "ConfigService"],
              [key |-> "consoleLogger", token |-> "ConsoleLoggerService"],
              [key |-> "fileLogger",    token |-> "FileLoggerService"],
              [key |-> "cloudLogger",   token |-> "CloudLoggerService"]>>
      [] cls = "UserService" ->
            <<[key |-> "loggerFactory", token |-> "LoggerFactory"]>>
      [] cls = "Main" ->
            <<[key |-> "userService", token |-> "UserService"]>>
      [] OTHER -> <<>>

\* ConfigService.getEnvConfig(configName): the configured value, whatever
\* the name asked for ('console' in index.ts).
GetEnvConfig(cfg, configName) == cfg

\* A getLogger whose first two cases are exchanged.
GetLoggerSwapped(acc, svc, cfg) ==
    LET value == GetEnvConfig(cfg, "loggerConfig")
    IN  CASE value = "console" ->
               [kind |-> "return", val |-> AccessorGet(acc, <<"LoggerFactory", "fileLogger">>, svc).val]
          [] value = "file" ->
               [kind |-> "return", val |-> AccessorGet(acc, <<"LoggerFactory", "consoleLogger">>, svc).val]
          [] value = "cloud" ->
               [kind |-> "return", val |-> AccessorGet(acc, <<"LoggerFactory", "cloudLogger">>, svc).val]
          [] OTHER -> [kind |-> "ConfigurationError", val |-> Undefined]

\* A getLogger that falls back to the console logger.
GetLoggerWithDefault(acc, svc, cfg) ==
    LET value == GetEnvConfig(cfg, "loggerConfig")
    IN  IF value = "file"
        THEN [kind |-> "return", val |-> AccessorGet(acc, <<"LoggerFactory", "fileLogger">>, svc).val]
        ELSE IF value = "cloud"
        THEN [kind |-> "return", val |-> AccessorGet(acc, <<"LoggerFactory", "cloudLogger">>, svc).val]
        ELSE [kind |-> "return", val |-> AccessorGet(acc, <<"LoggerFactory", "consoleLogger">>, svc).val]

\* LoggerFactory.getLogger: this.configService.getEnvConfig('loggerConfig'),
\* then the switch over the value.
GetLogger(acc, svc, cfg) ==
    LET configService == AccessorGet(acc, <<"LoggerFactory", "configService">>, svc).val
    IN  IF ~Truthy(configService)
        THEN [kind |-> "TypeError", val |-> Undefined]
        ELSE LET value == GetEnvConfig(cfg, "loggerConfig")
             IN  CASE value = "console" ->
                        [kind |-> "return",
                         val  |-> AccessorGet(acc, <<"LoggerFactory", "consoleLogger">>, svc).val]
                   [] value = "file" ->
                        [kind |-> "return",
                         val  |-> AccessorGet(acc, <<"LoggerFactory", "fileLogger">>, svc).val]
                   [] value = "cloud" ->
                        [kind |-> "return",
                         val  |-> AccessorGet(acc, <<"LoggerFactory", "cloudLogger">>, svc).val]
                   [] OTHER ->
                        [kind |-> "ConfigurationError", val |-> Undefined]

\* `new cls`: UserService's constructor sets this.loggerService from
\* this.loggerFactory.getLogger(); the other constructors of index.ts are
\* empty; a class supplied by a caller throws or not.
Construct(h, ls, cls, throws, acc, svc, cfg) ==
    IF cls = "UserService"
    THEN LET loggerFactory == AccessorGet(acc, <<"UserService", "loggerFactory">>, svc).val
             r == IF Truthy(loggerFactory)
                  THEN GetLogger(acc, svc, cfg)
                  ELSE [kind |-> "TypeError", val |-> Undefined]
         IN  IF r.kind = "return"
             THEN [kind |-> "return", val |-> Obj(Fresh(h)),
                   heap |-> Put(h, Fresh(h), cls),
                   loggerService |-> Put(ls, Fresh(h), r.val),
                   saw |-> loggerFactory]
             ELSE [kind |-> r.kind, val |-> Undefined, heap |-> h, loggerService |-> ls,
                   saw |-> loggerFactory]
    ELSE LET n == NewObject(h, cls, throws)
         IN  [kind |-> n.kind, val |-> n.val, heap |-> n.heap, loggerService |-> ls,
              saw |-> Undefined]

\* The property decorators of a declaration, from the i-th on: each is
\* Inject(token)(owner.prototype, key); the first throw ends them.
RECURSIVE ApplyInjects(_, _, _, _, _)
ApplyInjects(svc, acc, owner, injects, i) ==
    IF i > Len(injects)
    THEN [kind |-> "return", accessors |-> acc, resolves |-> 0, applied |-> i - 1]
    ELSE LET r == InjectApply(svc, acc, injects[i].token, <<owner, injects[i].key>>)
         IN  IF r.kind # "return"
             THEN [kind |-> r.kind, accessors |-> r.accessors,
                   resolves |-> r.resolves, applied |-> i - 1]
             ELSE LET rest == ApplyInjects(svc, r.accessors, owner, injects, i + 1)
                  IN  [rest EXCEPT !.resolves = @ + r.resolves]

TokensOf(injects) == [i \in 1..Len(injects) |-> injects[i].token]

RECURSIVE NoteInjects(_, _, _, _)
NoteInjects(at, owner, injects, n) ==
    IF n = 0 THEN at
    ELSE Put(NoteInjects(at, owner, injects, n - 1),
             <<owner, injects[n].key>>, LatestRegistered(injects[n].token))

\* A class decorator applied ahead of the class's property decorators: the
\* constructor runs on the prototype as it was before them.
AccessorsBeforeInjects(before, after) == before

\* The prototype accessors the constructor finds when Injectable runs it:
\* TypeScript applies a class's property decorators, then its class
\* decorators, so they are the ones left by the class's own Inject calls.
AccessorsAtConstruction(before, after) == after

\* The evaluation of one decorated class declaration:
\*   @Injectable class cls { @Inject(t1) k1; ...; constructor() {...} }
DeclareClass(cls, injects, throws) ==
    LET i == ApplyInjects(services, accessors, cls, injects, 1)
    IN  /\ accessors' = i.accessors
        /\ injectedAt' = NoteInjects(injectedAt, cls, injects, i.applied)
        /\ order' = Append(order, cls)
        /\ IF i.kind # "return"
           THEN /\ ret' = [Outcome("declare", cls, "none", i.kind, Undefined, i.resolves)
                              EXCEPT !.deps = TokensOf(injects)]
                /\ UNCHANGED <<services, heap, loggerService, lastReg, prevReg, hookDone,
                               ctorView>>
           ELSE LET found == AccessorsAtConstruction(accessors, i.accessors)
                    constructed == Construct(heap, loggerService, cls, throws,
                                             found, services, config)
                    r == InjectableApply(services, cls, constructed)
                IN  /\ heap' = constructed.heap
                    /\ ctorView' = [cls |-> cls, defined |-> DOMAIN found,
                                    saw |-> constructed.saw]
                    /\ loggerService' = constructed.loggerService
                    /\ services' = r.services
                    /\ ret' = [Outcome("declare", cls, "none", r.kind, r.val, i.resolves)
                                  EXCEPT !.deps = TokensOf(injects)]
                    /\ hookDone' = IF r.kind = "return" THEN hookDone \cup {cls}
                                   ELSE hookDone
                    /\ IF constructed.kind = "return"
                       THEN NoteRegister(cls, constructed.val)
                       ELSE UNCHANGED <<lastReg, prevReg>>

Range(q) == {q[i] : i \in 1..Len(q)}

(***************************************************************************)
(* Runs in which client code only declares decorated classes, resolves     *)
(* and reads injected properties.  A class is declared once; it injects    *)
(* any classes (itself included) into properties named after them, and its *)
(* constructor throws or not.                                              *)
(***************************************************************************)
DeclClasses == {"A", "B", "C"}

Injective(q) == \A i, j \in 1..Len(q) : q[i] = q[j] => i = j

DepSeqs ==
    {q \in UNION {[1..n -> DeclClasses] : n \in 0..Cardinality(DeclClasses)} :
        Injective(q)}

FieldsFor(deps) == [i \in 1..Len(deps) |-> [key |-> deps[i], token |-> deps[i]]]

Declare(cls, deps, throws) ==
    /\ cls \notin Range(order)
    /\ DeclareClass(cls, FieldsFor(deps), throws)
    /\ UNCHANGED <<config, pc, main, output>>

ResolveDeclared(token) == Resolve(token)

ReadDeclared(owner, key) == ReadProperty(owner, key)

NextDecl ==
    \/ \E cls \in DeclClasses, deps \in DepSeqs, throws \in BOOLEAN :
          Declare(cls, deps, throws)
    \/ \E token \in DeclClasses : ResolveDeclared(token)
    \/ \E owner \in DeclClasses, key \in DeclClasses : ReadDeclared(owner, key)

SpecDecl == Init /\ [][NextDecl]_vars

(***************************************************************************)
(* The program: index.ts lines 40-142                                      *)
(***************************************************************************)
\* The values getEnvConfig may be made to report ('console' in index.ts).
ConfigValues == {"console", "file", "cloud", "other"}

\* ConsoleLoggerService / FileLoggerService / CloudLoggerService .log
LoggerLog(cls, message) ==
    CASE cls = "ConsoleLoggerService" -> "[console]: " \o message
      [] cls = "FileLoggerService"    -> "[file]: " \o message
      [] cls = "CloudLoggerService"   -> "[cloud]: " \o message

\* UserService.login / updateUserName / logOut: the message each logs.
LoginMessage(username, password) ==
    "logging in user with " \o username \o " and " \o password

UpdateUserNameMessage(newUsername) == "updating username " \o newUsername

LogOutMessage == "logging out user"

\* Main.init: the three calls on this.userService, each logging one line
\* through the UserService instance's loggerService.
MainInitLines(h, ls, userService) ==
    LET logger == h[ls[userService.id].id]
    IN  <<LoggerLog(logger, LoginMessage("john", "john@123")),
          LoggerLog(logger, UpdateUserNameMessage("bob")),
          LoggerLog(logger, LogOutMessage)>>

InitMain ==
    /\ services = <<>>
    /\ accessors = Empty
    /\ heap = Empty
    /\ loggerService = Empty
    /\ ret = Outcome("none", "none", "none", "return", Undefined, 0)
    /\ lastReg = Empty
    /\ prevReg = [token |-> "none", instance |-> Undefined]
    /\ injectedAt = Empty
    /\ hookDone = {}
    /\ config \in ConfigValues
    /\ order = <<>>
    /\ pc = "declare"
    /\ main = Undefined
    /\ ctorView = NoView
    /\ output = <<>>

\* The next class declaration of the module; an uncaught throw ends the
\* program.
DeclareNext(cls) ==
    /\ pc = "declare"
    /\ cls \notin Range(order)
    /\ DeclareClass(cls, InjectsOf(cls), FALSE)
    /\ pc' = IF ret'.kind # "return" THEN "crashed"
             ELSE IF Len(order') = Len(DeclaredOrder) THEN "resolve"
             ELSE "declare"
    /\ UNCHANGED <<config, main, output>>

\* const main = container.resolve(Main)
ResolveMain ==
    /\ pc = "resolve"
    /\ LET r == ContainerResolve(services, "Main")
       IN  /\ ret' = Outcome("resolve", r.token, "none", r.kind, r.val, 1)
           /\ main' = r.val
           /\ pc' = IF r.kind = "return" THEN "init" ELSE "crashed"
    /\ services' = ContainerResolveEffect(services, "Main")
    /\ UNCHANGED <<accessors, heap, loggerService, lastReg, prevReg,
                   injectedAt, hookDone, config, order, ctorView, output>>

\* main.init()
MainInit ==
    /\ pc = "init"
    /\ LET userService == AccessorGet(accessors, <<"Main", "userService">>, services).val
       IN  IF Truthy(userService) /\ userService.id \in DOMAIN loggerService
           THEN /\ output' = output \o MainInitLines(heap, loggerService, userService)
                /\ ret' = Outcome("init", "Main", "none", "return", Undefined, 0)
                /\ pc' = "done"
           ELSE /\ output' = output
                /\ ret' = Outcome("init", "Main", "none", "TypeError", Undefined, 0)
                /\ pc' = "crashed"
    /\ UNCHANGED <<services, accessors, heap, loggerService, lastReg, prevReg,
                   injectedAt, hookDone, config, order, main, ctorView>>

NextMain ==
    \/ \E cls \in ProgramClasses : DeclareNext(cls)
    \/ ResolveMain
    \/ MainInit

SpecMain == InitMain /\ [][NextMain]_vars

(***************************************************************************)
(* Properties of the container API (checked under Spec)                    *)
(***************************************************************************)
EntriesFor(m, token) == {i \in 1..Len(m) : m[i].token = token}

\* C1: once register(T, i) has been called and T is not registered again,
\* every resolve(T) returns exactly i.
C1_ResolveReturnsRegistered ==
    (ret.op = "resolve" /\ ret.token \in DOMAIN lastReg)
        => (ret.kind = "return" /\ ret.val = lastReg[ret.token])

\* C2: resolve(T) for a T never passed to register fails with a LookupError
\* naming T; it returns nothing.
C2_UnregisteredFails ==
    (ret.op = "resolve" /\ ret.token \notin DOMAIN lastReg)
        => (ret.kind = "LookupError" /\ ret.val = Undefined)

C2_Witness ==
    /\ ret.op = "resolve"
    /\ ret.token \notin DOMAIN lastReg
    /\ ret.kind = "LookupError"
    /\ DOMAIN lastReg # {}

\* C3: Inject(T) applied while T has no registry entry fails with LookupError
\* in that very application and defines no accessor.
C3_InjectFailsAtDefinition ==
    [][(ret'.op = "Inject" /\ ~MapHas(services, ret'.token))
          => (ret'.kind = "LookupError" /\ accessors' = accessors)]_vars

C3_Witness ==
    /\ ret.op = "Inject"
    /\ ret.kind = "LookupError"
    /\ ~MapHas(services, ret.token)
    /\ DOMAIN accessors = {}
    /\ services # <<>>

\* C4: an application of Inject(T) calls resolve once; a read of the property
\* returns the instance that was registered for T when the hook was applied,
\* whatever was registered since, and resolves nothing.
C4_ResolvedOnceAtDefinition ==
    /\ ret.op = "Inject" => ret.resolves = 1
    /\ (ret.op = "read" /\ <<ret.token, ret.key>> \in DOMAIN injectedAt)
          => (ret.val = injectedAt[<<ret.token, ret.key>>] /\ ret.resolves = 0)

C4_Witness ==
    /\ ret.op = "read"
    /\ <<ret.token, ret.key>> \in DOMAIN injectedAt
    /\ ret.val = injectedAt[<<ret.token, ret.key>>]
    /\ lastReg[accessors[<<ret.token, ret.key>>].token] # ret.val

\* C5: an application of Injectable(C) that returns has constructed exactly
\* one object, of class C, and registered it under C: resolve(C) gives that
\* object, C has one entry, and the hook returns undefined (no replacement
\* class).
C5_InjectableRegistersOne ==
    [][(ret'.op = "Injectable" /\ ret'.kind = "return")
          => /\ DOMAIN heap' = DOMAIN heap \cup {Fresh(heap)}
             /\ Fresh(heap) \notin DOMAIN heap
             /\ heap'[Fresh(heap)] = ret'.token
             /\ \A o \in DOMAIN heap : heap'[o] = heap[o]
             /\ ContainerResolve(services', ret'.token)
                   = [kind |-> "return", val |-> Obj(Fresh(heap)), token |-> ret'.token]
             /\ Cardinality(EntriesFor(services', ret'.token)) = 1
             /\ ret'.val = Undefined]_vars

C5_Witness ==
    /\ ret.op = "Injectable"
    /\ ret.kind = "return"
    /\ MapGet(services, ret.token).tag = "object"
    /\ heap[MapGet(services, ret.token).id] = ret.token
    /\ prevReg.token = ret.token

\* C6: after register(T, i1) and then register(T, i2), i1 # i2, resolve(T)
\* returns i2, no resolve returns i1, and T has exactly one entry.
C6_OverwriteHidesFirst ==
    (ret.op = "resolve" /\ prevReg.token # "none")
        => /\ ret.token = prevReg.token
                => (ret.kind = "return" /\ ret.val = lastReg[prevReg.token])
           /\ ~(ret.kind = "return" /\ ret.val = prevReg.instance)
           /\ Cardinality(EntriesFor(services, prevReg.token)) = 1

\* C7: when the constructor throws under Injectable(C), the failure reaches
\* the caller and the registry is what it was.
C7_ThrowingConstructorRegistersNothing ==
    [][(ret'.op = "Injectable" /\ ret'.kind # "return")
          => (ret'.kind = "ConstructionError" /\ services' = services)]_vars

C7_Witness ==
    /\ ret.op = "Injectable"
    /\ ret.kind = "ConstructionError"
    /\ MapHas(services, ret.token)

(***************************************************************************)
(* Properties of the program (checked under SpecMain)                      *)
(***************************************************************************)
IsPrefix(p, q) == Len(p) <= Len(q) /\ \A i \in 1..Len(p) : p[i] = q[i]

ExpectedOutput ==
    <<"[console]: logging in user with john and john@123",
      "[console]: updating username bob",
      "[console]: logging out user">>

\* C8: evaluated in the declared order with the configuration 'console', the
\* program throws nowhere and has written exactly the three expected lines,
\* in order, when it ends (and nothing before main.init()).
C8_ConsoleRunOutput ==
    (config = "console" /\ IsPrefix(order, DeclaredOrder))
        => /\ pc # "crashed"
           /\ ret.kind = "return"
           /\ output = IF pc = "done" THEN ExpectedOutput ELSE <<>>

C8_Witness ==
    /\ config = "console"
    /\ order = DeclaredOrder
    /\ pc = "done"
    /\ output = ExpectedOutput

\* The logger class a recognised configuration value stands for.
LoggerClassFor(value) ==
    CASE value = "console" -> "ConsoleLoggerService"
      [] value = "file"    -> "FileLoggerService"
      [] value = "cloud"   -> "CloudLoggerService"

Recognised == {"console", "file", "cloud"}

\* C9: getLogger (called by UserService's constructor) gives the instance
\* registered for the logger class the configuration value names, in any
\* declaration order, and all output carries that logger's prefix; with any
\* other value it fails with ConfigurationError and no logger is handed out.
C9_LoggerChosenByConfig ==
    /\ \A u \in DOMAIN loggerService :
          /\ config \in Recognised
          /\ Truthy(loggerService[u])
          /\ loggerService[u] = lastReg[LoggerClassFor(config)]
          /\ heap[loggerService[u].id] = LoggerClassFor(config)
    /\ (ret.op = "declare" /\ ret.token = "UserService" /\ ret.kind # "LookupError")
          => IF config \in Recognised
             THEN ret.kind = "return" /\ DOMAIN loggerService # {}
             ELSE ret.kind = "ConfigurationError" /\ DOMAIN loggerService = {}
    /\ pc = "done"
          => output = <<LoggerLog(LoggerClassFor(config), LoginMessage("john", "john@123")),
                        LoggerLog(LoggerClassFor(config), UpdateUserNameMessage("bob")),
                        LoggerLog(LoggerClassFor(config), LogOutMessage)>>

C9_Witness ==
    /\ pc = "done"
    /\ config = "file"
    /\ order[1] = "CloudLoggerService"
    /\ order[2] = "FileLoggerService"
    /\ output[3] = "[file]: logging out user"

(***************************************************************************)
(* Properties of declaration order (checked under SpecDecl)                *)
(***************************************************************************)
\* C10: a class declaration gets through its field injections without
\* LookupError exactly when the registration hook of every class it injects
\* had completed before the declaration was evaluated; injecting a class
\* declared later, or the class itself, fails.
C10_DeclareBeforeUse ==
    [][ret'.op = "declare"
          => (ret'.kind # "LookupError"
                 <=> \A i \in 1..Len(ret'.deps) : ret'.deps[i] \in hookDone)]_vars

C10_Witness ==
    /\ ret.op = "declare"
    /\ ret.kind = "LookupError"
    /\ Len(order) = 2
    /\ ret.deps = <<order[1], ret.token>>
    /\ order[1] \in hookDone

\* C11: when only the registration hook creates entries, one application per
\* class declaration, an entry once made is never replaced or removed: every
\* identity registered before a step is registered after it, to the same
\* instance.
C11_EntriesWriteOnce ==
    [][\A token \in MapKeys(services) :
          /\ MapHas(services', token)
          /\ MapGet(services', token) = MapGet(services, token)
          /\ Cardinality(EntriesFor(services', token)) = 1]_vars

C11_Witness ==
    /\ ret.op = "declare"
    /\ ret.kind = "return"
    /\ Len(order) = 3
    /\ Len(services) = 2
    /\ services[2].token = ret.token
    /\ services[1].token = order[1]
    /\ services[1].instance = Obj(1)

\* C12: a call of resolve(T), made directly or by Inject, returning or
\* failing, leaves the registry as it was: the same entries, in the same
\* order, with the same instances.
C12_ResolveReadsOnly ==
    [][ret'.op \in {"resolve", "Inject"} => services' = services]_vars

C12_Witness ==
    /\ ret.op = "resolve"
    /\ ret.kind = "LookupError"
    /\ MapHas(services, ret.token)
    /\ Len(services) = 2

\* C13: when the registration hook of a class runs its constructor, every
\* field-injection accessor of the class is already defined; the read of
\* this.loggerFactory in UserService's constructor gives the registered
\* LoggerFactory instance, never undefined.
C13_AccessorsBeforeConstruction ==
    (ret.op = "declare" /\ ret.kind # "LookupError")
        => /\ ctorView.cls = ret.token
           /\ \A k \in 1..Len(InjectsOf(ret.token)) :
                 <<ret.token, InjectsOf(ret.token)[k].key>> \in ctorView.defined
           /\ ret.kind # "TypeError"
           /\ ret.token = "UserService"
                 => /\ Truthy(ctorView.saw)
                    /\ ctorView.saw = lastReg["LoggerFactory"]
                    /\ heap[ctorView.saw.id] = "LoggerFactory"

C13_Witness ==
    /\ ret.op = "declare"
    /\ ret.token = "UserService"
    /\ ret.kind = "return"
    /\ ctorView.cls = "UserService"
    /\ <<"UserService", "loggerFactory">> \in ctorView.defined
    /\ ctorView.saw = lastReg["LoggerFactory"]

====
